---- MODULE Spec2Model ----
(***************************************************************************)
(* A model of mstm/__init__.py, the python wrapper around the MSTM solver. *)
(*                                                                         *)
(* calc_scat_matrix is modelled as a process: every call walks through the *)
(* statements of the function (mkdtemp, getcwd, copy, chdir, write the     *)
(* inputs, run the solver, read and parse the report, chdir back, rmtree,  *)
(* return), and the working directory and the file system are shared by    *)
(* all calls of the python process.  The pure parts of the file            *)
(* (separate_exponent, the angle grid, the wavelength sweep, the report    *)
(* parser, the limits handed to the quadrature) are operators, each with a *)
(* small specification of its own that draws its inputs from bounded sets. *)
(***************************************************************************)
EXTENDS Integers, Sequences, FiniteSets, TLC

VARIABLES
    \* ---- the python process (shared by every call of calc_scat_matrix)
    cwd,                \* the process working directory (os.getcwd / os.chdir)
    fs,                 \* the file system: existing directory -> names of its files
    next_tmp,           \* the next name tempfile.mkdtemp hands out
    installed,          \* whether mstm and input_template.txt sit beside __init__.py
    incident,           \* the Incident object the caller built and hands to its calls
    \* ---- one call of calc_scat_matrix per thread
    pc,                 \* the statement the call is at
    delete,             \* the call's argument delete
    temp_dir,           \* local temp_dir
    current_directory,  \* local current_directory
    returncode,         \* exit status of the solver subprocess (NotRun before)
    n_exec,             \* how many times the call started the solver
    report_read,        \* whether the call opened and read mstm_out.dat
    scat_mat_data,      \* local scat_mat_data (the array the call returns)
    \* ---- history of the run, read by the properties only
    entry_cwd,          \* the working directory when the call started
    overlap,            \* whether a call started while another was running
    \* ---- lines 105-112 and 142: the angle grid of one call
    theta, phi,         \* the arguments theta and phi
    angs,               \* local angs
    angfile,            \* the lines of angles.dat
    n_angles,           \* len(angs) as substituted into mstm.inp
    ang_pc,
    \* ---- one call of separate_exponent
    num,                \* the argument num
    b, e,               \* locals b and e
    sep_pc,
    \* ---- lines 114-123: the wavelength sweep of one call, and the solver's run of it
    length_scl_factor,       \* incident.length_scl_factor
    length_scl_factor_info,  \* local length_scl_factor_info
    visited,                 \* the samples the solver's sweep stops at
    sweep_pc,
    \* ---- lines 153-183: one report parsed on each polarization path
    report_zero,        \* a report of a run with polarization angle zero
    report_nonzero,     \* the same report with extra lines in the efficiency summaries
    extra_at,           \* where the extra lines are (offsets from the marker)
    parsed_zero,        \* the parse of report_zero with polarization_angle == 0
    parsed_nonzero,     \* the parse of report_nonzero with polarization_angle != 0
    parse_pc,
    \* ---- one call of calc_cross_section (its arguments are theta, phi, incident)
    cross_section,      \* local cross_section
    cs_i,               \* the loop variable i
    cs_pc

procVars == <<cwd, fs, next_tmp, installed, incident>>
callVars == <<pc, delete, temp_dir, current_directory, returncode, n_exec,
              report_read, scat_mat_data>>
histVars == <<entry_cwd, overlap>>
angVars == <<theta, phi, angs, angfile, n_angles, ang_pc>>
sepVars == <<num, b, e, sep_pc>>
sweepVars == <<length_scl_factor, length_scl_factor_info, visited, sweep_pc>>
parseVars == <<report_zero, report_nonzero, extra_at, parsed_zero, parsed_nonzero,
               parse_pc>>
crossVars == <<cross_section, cs_i, cs_pc>>
pureVars == <<angVars, sepVars, sweepVars, parseVars, crossVars>>
vars == <<procVars, callVars, histVars, pureVars>>

\* a part of the program that a specification does not run
AngQuiet ==
    /\ theta = <<>> /\ phi = <<>> /\ angs = <<>> /\ angfile = <<>>
    /\ n_angles = 0 /\ ang_pc = "off"
SepQuiet == num = <<>> /\ b = <<>> /\ e = <<>> /\ sep_pc = "off"
SweepQuiet ==
    /\ length_scl_factor = <<>> /\ length_scl_factor_info = <<>>
    /\ visited = <<>> /\ sweep_pc = "off"
ParseQuiet ==
    /\ report_zero = <<>> /\ report_nonzero = <<>> /\ extra_at = <<>>
    /\ parsed_zero = <<>> /\ parsed_nonzero = <<>> /\ parse_pc = "off"
CrossQuiet == cross_section = <<>> /\ cs_i = 0 /\ cs_pc = "off"

----------------------------------------------------------------------------
(* Bounds of the model *)

\* the longest incident.length_scl_factor a call is given
MaxK == 2
\* the most marker lines of one kind the solver's report holds
MaxMarkers == 2

(* Constants of the program *)

\* the width of a row of scat_mat_data
NCols == 18

----------------------------------------------------------------------------
(* Python sequences are indexed from 0 *)

At0(s, i) == s[i + 1]
InRange0(s, i) == i >= 0 /\ i < Len(s)

\* s[lo : up] of python, for 0 <= lo
Slice0(s, lo, up) ==
    LET hi == IF up < Len(s) THEN up ELSE Len(s)
    IN  IF lo >= hi THEN <<>> ELSE SubSeq(s, lo + 1, hi)

RECURSIVE SeqOf(_, _)
SeqOf(x, n) == IF n <= 0 THEN <<>> ELSE <<x>> \o SeqOf(x, n - 1)

RECURSIVE Concat(_)
Concat(ss) == IF ss = <<>> THEN <<>> ELSE Head(ss) \o Concat(Tail(ss))

Max2(x, y) == IF x >= y THEN x ELSE y

----------------------------------------------------------------------------
(* Lines of the solver's report.  A line is its kind and its tokens (the    *)
(* fields between blanks):                                                 *)
(*   "sm"    the line ' scattering matrix elements'                         *)
(*   "qm"    the line ' unpolarized total ext, abs, scat efficiencies, ...' *)
(*   "blank" a line that is empty once '\n' and '\t' are removed            *)
(*   "num"   a line whose tokens are all numbers (toks holds them)          *)
(*   "txt"   any other line: its tokens are words float() rejects           *)

SMLine == [tag |-> "sm", toks |-> <<>>]
QMLine == [tag |-> "qm", toks |-> <<>>]
BlankLine == [tag |-> "blank", toks |-> <<>>]
TxtLine == [tag |-> "txt", toks |-> <<0>>]
NumLine(toks) == [tag |-> "num", toks |-> toks]

\* lines 157-159: strip '\n' and '\t', drop the lines left empty
StripLines(lines) == SelectSeq(lines, LAMBDA l : l.tag # "blank")

\* lines 160-163: the 0-based indices of the lines equal to a marker
RECURSIVE MarkerRowsFrom(_, _, _)
MarkerRowsFrom(lines, tag, i) ==
    IF i >= Len(lines) THEN <<>>
    ELSE (IF At0(lines, i).tag = tag THEN <<i>> ELSE <<>>)
         \o MarkerRowsFrom(lines, tag, i + 1)

scat_mat_el_row(lines) == MarkerRowsFrom(lines, "sm", 0)
qsca_row(lines) == MarkerRowsFrom(lines, "qm", 0)

\* a variant of qsca_line_shift that takes the same offset on both paths
QscaLineShiftBoth(polarization_zero) == 3
\* lines 165-168
qsca_line_shift(polarization_zero) == IF polarization_zero THEN 3 ELSE 5

\* a value or an exception
Ok(v) == [ok |-> TRUE, val |-> v]
Raised == [ok |-> FALSE, val |-> <<>>]

\* lines 172-175 for marker m: float(third token of the line
\* qsca_row[m] + qsca_line_shift); IndexError when the marker, the line or the
\* token is missing, ValueError when the token is no number
Qsca(lines, m, polarization_zero) ==
    LET rows == qsca_row(lines) IN
    IF ~InRange0(rows, m) THEN Raised
    ELSE LET at == At0(rows, m) + qsca_line_shift(polarization_zero) IN
         IF ~InRange0(lines, at) THEN Raised
         ELSE LET l == At0(lines, at) IN
              IF Len(l.toks) >= 3 /\ l.tag = "num" THEN [ok |-> TRUE, val |-> <<At0(l.toks, 2)>>]
              ELSE Raised

\* lines 170-171 and 176-183 for marker m: the len(angs) lines from two below the
\* marker, each a row of floats; smdata[i] of a missing line is an IndexError,
\* float() of a word a ValueError, smdata[i][1] of a short row an IndexError,
\* and the assignment into scat_mat_data[m] needs NCols columns and m < k
Smdata(lines, m, n_angs) ==
    LET at == At0(scat_mat_el_row(lines), m)
    IN  Slice0(lines, at + 2, at + 2 + n_angs)

SlabRaises(lines, m, n_angs, k) ==
    LET smdata == Smdata(lines, m, n_angs) IN
    \/ Len(smdata) < n_angs
    \/ \E i \in 1..Len(smdata) :
          smdata[i].tag # "num" \/ Len(smdata[i].toks) # NCols
    \/ m >= k

\* A slab of scat_mat_data.  filled = FALSE is the slab np.zeros made.  A
\* filled slab holds rows[i][c]*qsca/8 in the columns c >= 2 and rows[i][c] in
\* the columns 0 and 1; the model keeps qsca and the first two columns.
ZeroSlab == [filled |-> FALSE, qsca |-> 0, angles |-> <<>>]
FilledSlab(qsca, smdata) ==
    [filled |-> TRUE, qsca |-> qsca,
     angles |-> [i \in 1..Len(smdata) |-> <<smdata[i].toks[1], smdata[i].toks[2]>>]]

\* lines 169-183: the loop over the scattering-matrix markers, from marker m on
RECURSIVE ParseFrom(_, _, _, _, _, _)
ParseFrom(lines, m, n_angs, k, polarization_zero, data) ==
    IF m >= Len(scat_mat_el_row(lines)) THEN Ok(data)
    ELSE LET q == Qsca(lines, m, polarization_zero) IN
         IF ~q.ok \/ SlabRaises(lines, m, n_angs, k) THEN Raised
         ELSE ParseFrom(lines, m + 1, n_angs, k, polarization_zero,
                        [data EXCEPT ![m + 1] =
                            FilledSlab(q.val[1], Smdata(lines, m, n_angs))])

\* lines 153-183 once the file is open: allocate k zero slabs, fill one per marker
ParseReport(file, k, n_angs, polarization_zero) ==
    ParseFrom(StripLines(file), 0, n_angs, k, polarization_zero, SeqOf(ZeroSlab, k))

----------------------------------------------------------------------------
(* The angle grid, lines 105-112 *)

\* np.repeat(a, n): every element n times in a row
RECURSIVE Repeat(_, _)
Repeat(a, n) == IF a = <<>> THEN <<>> ELSE SeqOf(Head(a), n) \o Repeat(Tail(a), n)

\* np.tile(a, n): the whole sequence n times
RECURSIVE Tile(_, _)
Tile(a, n) == IF n <= 0 THEN <<>> ELSE a \o Tile(a, n - 1)

\* vstack((thetatot, phitot)).transpose() is one (theta, phi) row per grid point
\* a variant of Angs in which phi varies slower than theta
AngsPhiSlow(th, ph) ==
    LET thetatot == Tile(th, Len(ph))
        phitot == Repeat(ph, Len(th))
    IN  [r \in 1..Len(thetatot) |-> <<thetatot[r], phitot[r]>>]
\* lines 108-111
Angs(th, ph) ==
    LET thetatot == Repeat(th, Len(ph))
        phitot == Tile(ph, Len(th))
    IN  [r \in 1..Len(thetatot) |-> <<thetatot[r], phitot[r]>>]

----------------------------------------------------------------------------
(* The wavelength sweep written into the input deck.  The samples are even  *)
(* numbers of their unit, so that lsf_delta/2 is exact.                     *)

\* a variant of LsfInfo whose end is the last sample itself
LsfInfoUnpadded(lsf) ==
    IF Len(lsf) = 0 THEN Raised
    ELSE LET lsf_delta == IF Len(lsf) = 1 THEN 0 ELSE At0(lsf, 1) - At0(lsf, 0)
         IN  Ok(<<At0(lsf, 0), At0(lsf, Len(lsf) - 1), lsf_delta>>)
\* lines 116-123; an empty length_scl_factor is an IndexError at line 120
LsfInfo(lsf) ==
    IF Len(lsf) = 0 THEN Raised
    ELSE LET lsf_delta == IF Len(lsf) = 1 THEN 0 ELSE At0(lsf, 1) - At0(lsf, 0)
             lsf_start == At0(lsf, 0)
             lsf_end == At0(lsf, Len(lsf) - 1) + lsf_delta \div 2
         IN  Ok(<<lsf_start, lsf_end, lsf_delta>>)

----------------------------------------------------------------------------
(* The python process and the calls of calc_scat_matrix *)

Threads == {"A", "B"}

\* the directory the process starts in, and the value of a local not yet bound
Home == 0
NoDir == -1
\* returncode before the solver ran
NotRun == -1

\* polarization_angle == 0 (lines 124-125, 165): arctan2(j[1], j[0]) is exactly
\* zero when j[1] is zero and j[0] is not negative
PolarizationZero(jones_vec) == jones_vec[2] = 0 /\ jones_vec[1] >= 0

\* the arguments the caller hands to its calls: the angles are in hundredths
\* of a degree, length_scl_factor in thousandths
GridTheta == <<0, 9000>>
GridPhi == <<0>>
JonesVecs == {<<1, 0>>, <<0, 1>>}
LsfOfLen(k) == [i \in 1..k |-> 6000 + 200 * i]
Incidents == [jones_vec : JonesVecs, length_scl_factor : {LsfOfLen(k) : k \in 0..MaxK}]

Active(t) == pc[t] \notin {"idle", "returned", "raised"}
Ended(t) == pc[t] \in {"returned", "raised"}

\* what the solver may leave in mstm_out.dat: per wavelength an efficiency
\* summary (the marker, the lines the solver prints before the efficiencies for
\* this polarization, the efficiencies) and a scattering-matrix table (the
\* marker, the column header, a row per angle), separated by empty lines
EffBlock(w, polarization_zero) ==
    <<QMLine>> \o SeqOf(TxtLine, qsca_line_shift(polarization_zero) - 1)
               \o <<NumLine(<<w, 0, 10 + w>>), BlankLine>>
MatRow(w, i) == NumLine([c \in 1..NCols |-> IF c = 1 THEN i ELSE IF c = 2 THEN 0 ELSE w])
MatBlock(w, n_rows) ==
    <<SMLine, TxtLine>> \o [i \in 1..n_rows |-> MatRow(w, i)] \o <<BlankLine>>
Report(n_mat, n_eff, n_rows, polarization_zero) ==
    Concat([w \in 1..Max2(n_mat, n_eff) |->
              (IF w <= n_eff THEN EffBlock(w, polarization_zero) ELSE <<>>)
              \o (IF w <= n_mat THEN MatBlock(w, n_rows) ELSE <<>>)])
Reports(n_angs, polarization_zero) ==
    {Report(n_mat, n_eff, n_angs, polarization_zero) :
        n_mat \in 0..MaxMarkers, n_eff \in 0..MaxMarkers}
    \cup {Report(1, 1, n_angs - 1, polarization_zero)}

ProcInit ==
    /\ cwd = Home
    /\ fs = (Home :> {})
    /\ next_tmp = 1
    /\ installed \in BOOLEAN
    /\ incident \in Incidents
    /\ pc = [t \in Threads |-> "idle"]
    /\ delete = [t \in Threads |-> FALSE]
    /\ temp_dir = [t \in Threads |-> NoDir]
    /\ current_directory = [t \in Threads |-> NoDir]
    /\ returncode = [t \in Threads |-> NotRun]
    /\ n_exec = [t \in Threads |-> 0]
    /\ report_read = [t \in Threads |-> FALSE]
    /\ scat_mat_data = [t \in Threads |-> <<>>]
    /\ entry_cwd = [t \in Threads |-> NoDir]
    /\ overlap = FALSE

\* the process before any call, for the specifications of the pure parts
ProcQuietWith(inc) == ProcInit /\ installed /\ incident = inc
ProcQuiet == ProcQuietWith([jones_vec |-> <<1, 0>>, length_scl_factor |-> LsfOfLen(1)])

\* an exception leaves the function: nothing after the raising statement runs
Raise(t) == pc' = [pc EXCEPT ![t] = "raised"]
Goto(t, l) == pc' = [pc EXCEPT ![t] = l]

\* line 69: calc_scat_matrix(target, incident, theta, phi, delete) is called
Call(t) ==
    /\ pc[t] = "idle"
    /\ \E d \in BOOLEAN : delete' = [delete EXCEPT ![t] = d]
    /\ Goto(t, "L95")
    /\ entry_cwd' = [entry_cwd EXCEPT ![t] = cwd]
    /\ overlap' = (overlap \/ \E u \in Threads \ {t} : Active(u))
    /\ UNCHANGED <<procVars, temp_dir, current_directory, returncode, n_exec,
                   report_read, scat_mat_data, pureVars>>

\* line 95: temp_dir = tempfile.mkdtemp()
Mkdtemp(t) ==
    /\ pc[t] = "L95"
    /\ temp_dir' = [temp_dir EXCEPT ![t] = next_tmp]
    /\ fs' = fs @@ (next_tmp :> {})
    /\ next_tmp' = next_tmp + 1
    /\ Goto(t, "L96")
    /\ UNCHANGED <<cwd, installed, incident, delete, current_directory, returncode, n_exec,
                   report_read, scat_mat_data, histVars, pureVars>>

\* line 96: current_directory = os.getcwd(), which raises when the working
\* directory has been removed
Getcwd(t) ==
    /\ pc[t] = "L96"
    /\ IF cwd \in DOMAIN fs
       THEN /\ current_directory' = [current_directory EXCEPT ![t] = cwd]
            /\ Goto(t, "L101")
       ELSE /\ Raise(t)
            /\ UNCHANGED current_directory
    /\ UNCHANGED <<procVars, delete, temp_dir, returncode, n_exec,
                   report_read, scat_mat_data, histVars, pureVars>>

\* lines 97-102: copy the executable and the template into temp_dir;
\* shutil.copy raises when the source is missing
CopyFiles(t) ==
    /\ pc[t] = "L101"
    /\ IF installed
       THEN /\ fs' = [fs EXCEPT ![temp_dir[t]] = @ \cup {"mstm", "input_template.txt"}]
            /\ Goto(t, "L103")
       ELSE /\ Raise(t)
            /\ UNCHANGED fs
    /\ UNCHANGED <<cwd, next_tmp, installed, incident, delete, temp_dir, current_directory,
                   returncode, n_exec, report_read, scat_mat_data, histVars, pureVars>>

\* line 103: os.chdir(temp_dir)
Chdir(t) ==
    /\ pc[t] = "L103"
    /\ cwd' = temp_dir[t]
    /\ Goto(t, "L105")
    /\ UNCHANGED <<fs, next_tmp, installed, incident, delete, temp_dir, current_directory,
                   returncode, n_exec, report_read, scat_mat_data, histVars, pureVars>>

\* lines 105-146: write angles.dat, derive the sweep from length_scl_factor
\* (an IndexError at line 120 when it is empty), write mstm.inp
WriteInputs(t) ==
    /\ pc[t] = "L105"
    /\ IF ~LsfInfo(incident.length_scl_factor).ok
       THEN /\ fs' = [fs EXCEPT ![temp_dir[t]] = @ \cup {"angles.dat"}]
            /\ Raise(t)
       ELSE /\ fs' = [fs EXCEPT ![temp_dir[t]] = @ \cup {"angles.dat", "mstm.inp"}]
            /\ Goto(t, "L150")
    /\ UNCHANGED <<cwd, next_tmp, installed, incident, delete, temp_dir, current_directory,
                   returncode, n_exec, report_read, scat_mat_data, histVars, pureVars>>

\* a variant of RunSolver that ignores the exit status (subprocess.call)
RunSolverUnchecked(t) ==
    /\ pc[t] = "L150"
    /\ n_exec' = [n_exec EXCEPT ![t] = @ + 1]
    /\ \E rc \in {0, 1} :
          /\ returncode' = [returncode EXCEPT ![t] = rc]
          /\ \/ UNCHANGED fs
             \/ fs' = [fs EXCEPT ![temp_dir[t]] = @ \cup {"mstm_out.dat"}]
          /\ Goto(t, "L153")
    /\ UNCHANGED <<cwd, next_tmp, installed, incident, delete, temp_dir,
                   current_directory, report_read, scat_mat_data, histVars, pureVars>>
\* lines 148-150: subprocess.check_call(cmd, cwd=temp_dir) runs the solver once
\* and raises CalledProcessError when it exits non-zero.  The solver exits
\* with any status, having written mstm_out.dat or not.
RunSolver(t) ==
    /\ pc[t] = "L150"
    /\ n_exec' = [n_exec EXCEPT ![t] = @ + 1]
    /\ \E rc \in {0, 1} :
          /\ returncode' = [returncode EXCEPT ![t] = rc]
          /\ \/ UNCHANGED fs
             \/ fs' = [fs EXCEPT ![temp_dir[t]] = @ \cup {"mstm_out.dat"}]
          /\ IF rc = 0 THEN Goto(t, "L153") ELSE Raise(t)
    /\ UNCHANGED <<cwd, next_tmp, installed, incident, delete, temp_dir,
                   current_directory, report_read, scat_mat_data, histVars, pureVars>>

\* lines 153-183: glob(...)[0] is an IndexError when the solver left no
\* mstm_out.dat; otherwise the file is read and parsed.  What the file holds
\* is the solver's choice, seen by the call only here.
ReadResult(t) ==
    /\ pc[t] = "L153"
    /\ IF "mstm_out.dat" \notin fs[temp_dir[t]]
       THEN /\ Raise(t)
            /\ UNCHANGED <<report_read, scat_mat_data>>
       ELSE \E mstm_result \in Reports(Len(Angs(GridTheta, GridPhi)),
                                       PolarizationZero(incident.jones_vec)) :
            LET parsed == ParseReport(mstm_result,
                                      Len(incident.length_scl_factor),
                                      Len(Angs(GridTheta, GridPhi)),
                                      PolarizationZero(incident.jones_vec))
            IN  /\ report_read' = [report_read EXCEPT ![t] = TRUE]
                /\ IF parsed.ok
                   THEN /\ scat_mat_data' = [scat_mat_data EXCEPT ![t] = parsed.val]
                        /\ Goto(t, "L186")
                   ELSE /\ Raise(t)
                        /\ UNCHANGED scat_mat_data
    /\ UNCHANGED <<procVars, delete, temp_dir, current_directory, returncode, n_exec,
                   histVars, pureVars>>

\* a variant of Restore that leaves the working directory alone
RestoreSkipped(t) ==
    /\ pc[t] = "L186"
    /\ Goto(t, "L187")
    /\ UNCHANGED <<procVars, delete, temp_dir, current_directory, returncode, n_exec,
                   report_read, scat_mat_data, histVars, pureVars>>
\* line 186: os.chdir(current_directory), which raises when that directory has
\* been removed
Restore(t) ==
    /\ pc[t] = "L186"
    /\ IF current_directory[t] \in DOMAIN fs
       THEN /\ cwd' = current_directory[t]
            /\ Goto(t, "L187")
       ELSE /\ Raise(t)
            /\ UNCHANGED cwd
    /\ UNCHANGED <<fs, next_tmp, installed, incident, delete, temp_dir, current_directory,
                   returncode, n_exec, report_read, scat_mat_data, histVars, pureVars>>

\* a variant of Cleanup that removes the directory whatever delete is
CleanupAlways(t) ==
    /\ pc[t] = "L187"
    /\ fs' = [d \in DOMAIN fs \ {temp_dir[t]} |-> fs[d]]
    /\ Goto(t, "L190")
    /\ UNCHANGED <<cwd, next_tmp, installed, incident, delete, temp_dir, current_directory,
                   returncode, n_exec, report_read, scat_mat_data, histVars, pureVars>>
\* lines 187-188: if delete: shutil.rmtree(temp_dir)
Cleanup(t) ==
    /\ pc[t] = "L187"
    /\ IF delete[t]
       THEN fs' = [d \in DOMAIN fs \ {temp_dir[t]} |-> fs[d]]
       ELSE UNCHANGED fs
    /\ Goto(t, "L190")
    /\ UNCHANGED <<cwd, next_tmp, installed, incident, delete, temp_dir, current_directory,
                   returncode, n_exec, report_read, scat_mat_data, histVars, pureVars>>

\* line 190: return scat_mat_data
Return(t) ==
    /\ pc[t] = "L190"
    /\ Goto(t, "returned")
    /\ UNCHANGED <<procVars, delete, temp_dir, current_directory, returncode, n_exec,
                   report_read, scat_mat_data, histVars, pureVars>>

\* the calls of the threads of one process, interleaved statement by statement;
\* a single-threaded caller is the runs in which overlap stays FALSE
Next ==
    \E t \in Threads :
        \/ Call(t)
        \/ Mkdtemp(t)
        \/ Getcwd(t)
        \/ CopyFiles(t)
        \/ Chdir(t)
        \/ WriteInputs(t)
        \/ RunSolver(t)
        \/ ReadResult(t)
        \/ Restore(t)
        \/ Cleanup(t)
        \/ Return(t)
Init == ProcInit /\ AngQuiet /\ SepQuiet /\ SweepQuiet /\ ParseQuiet /\ CrossQuiet
Spec == Init /\ [][Next]_vars

----------------------------------------------------------------------------
(* The angle file and the angle count of one call, lines 105-112 and 142.   *)
(* Angles are in thousandths of a degree; '%5.2f' writes hundredths.        *)

\* the longest theta and phi
MaxTheta == 3
MaxPhi == 2

AngleVals == {0, 45127, 90000}
SeqsUpTo(S, n) == UNION {[1..l -> S] : l \in 0..n}

\* '%5.2f' of a non-negative angle: the nearest hundredth, a tie going to the
\* even one
Fmt2(x) ==
    LET q == x \div 10
        r == x % 10
    IN  IF r < 5 \/ (r = 5 /\ q % 2 = 0) THEN q ELSE q + 1

\* line 112: np.savetxt(angfile, angs, '%5.2f'), one line per row of angs
SaveTxt(a) == [r \in 1..Len(a) |-> <<Fmt2(a[r][1]), Fmt2(a[r][2])>>]

AngInit ==
    /\ theta \in SeqsUpTo(AngleVals, MaxTheta)
    /\ phi \in SeqsUpTo(AngleVals, MaxPhi)
    /\ angs = <<>> /\ angfile = <<>> /\ n_angles = 0
    /\ ang_pc = "L108"
    /\ ProcQuiet /\ SepQuiet /\ SweepQuiet /\ ParseQuiet /\ CrossQuiet

\* lines 108-111
MakeAngs ==
    /\ ang_pc = "L108"
    /\ angs' = Angs(theta, phi)
    /\ ang_pc' = "L112"
    /\ UNCHANGED <<theta, phi, angfile, n_angles, procVars, callVars, histVars, sepVars,
                   sweepVars, parseVars, crossVars>>

\* line 112
WriteAngfile ==
    /\ ang_pc = "L112"
    /\ angfile' = SaveTxt(angs)
    /\ ang_pc' = "L142"
    /\ UNCHANGED <<theta, phi, angs, n_angles, procVars, callVars, histVars, sepVars,
                   sweepVars, parseVars, crossVars>>

\* lines 142-143: len(angs) goes into the input deck
FormatDeck ==
    /\ ang_pc = "L142"
    /\ n_angles' = Len(angs)
    /\ ang_pc' = "done"
    /\ UNCHANGED <<theta, phi, angs, angfile, procVars, callVars, histVars, sepVars,
                   sweepVars, parseVars, crossVars>>

AngNext ==
    \/ MakeAngs
    \/ WriteAngfile
    \/ FormatDeck
SpecAngles == AngInit /\ [][AngNext]_vars

\* C6: the angle file has len(theta)*len(phi) lines, line i*len(phi)+j (from 0)
\* holds theta[i] and phi[j], each written to two decimals, and the angle
\* count in the input deck is len(theta)*len(phi).
C6_AngleFileIsOuterProduct ==
    ang_pc = "done" =>
        LET m == Len(theta)
            n == Len(phi)
        IN  /\ Len(angfile) = m * n
            /\ n_angles = m * n
            /\ \A i \in 0..(m - 1), j \in 0..(n - 1) :
                  At0(angfile, i * n + j) = <<Fmt2(At0(theta, i)), Fmt2(At0(phi, j))>>

\* a grid of three by two distinct angles has been written
C6_Witness ==
    /\ ang_pc = "done"
    /\ theta = <<0, 45127, 90000>>
    /\ phi = <<45127, 0>>
    /\ angfile = <<<<0, 4513>>, <<0, 0>>, <<4513, 4513>>, <<4513, 0>>,
                   <<9000, 4513>>, <<9000, 0>>>>

----------------------------------------------------------------------------
(* Properties of calc_scat_matrix *)

NotStarted(t) == pc[t] = "idle"
Alone(t) == \A u \in Threads \ {t} : NotStarted(u)
AllReturned == \A t \in Threads : pc[t] = "returned"

\* C1: when a call of calc_scat_matrix that started the solver has ended, by a
\* return or by an exception (the solver exited non-zero, mstm_out.dat is
\* missing, the report did not parse), and no other call has run, the working
\* directory is the one that was current when the call started.
C1_CwdRestoredOnEveryExit ==
    \A t \in Threads : (Ended(t) /\ Alone(t) /\ n_exec[t] = 1) => cwd = entry_cwd[t]

\* C2: once the solver has exited non-zero the call has failed: the solver was
\* started exactly once, mstm_out.dat was not read and no array was made or
\* returned; and no call ever starts the solver twice.
C2_NonZeroExitIsFatal ==
    \A t \in Threads :
        /\ n_exec[t] <= 1
        /\ returncode[t] \notin {NotRun, 0} =>
              /\ pc[t] = "raised"
              /\ n_exec[t] = 1
              /\ ~report_read[t]
              /\ scat_mat_data[t] = <<>>

C2_Witness ==
    \E t \in Threads :
        /\ returncode[t] = 1
        /\ pc[t] = "raised"
        /\ "mstm_out.dat" \in fs[temp_dir[t]]

\* C3: a call that returns returns an array with one slab per wavelength sample,
\* every one of them filled from the report.
C3_NoPartialResult ==
    \A t \in Threads :
        pc[t] = "returned" =>
            /\ Len(scat_mat_data[t]) = Len(incident.length_scl_factor)
            /\ \A m \in 1..Len(scat_mat_data[t]) : scat_mat_data[t][m].filled

\* C4: the scratch directory of a call is gone only if the call was given
\* delete=True, its solver exited zero and its report was parsed; such a call
\* has removed it when it returns; a call that failed, or returned with
\* delete=False, leaves its scratch directory in place, with every file written.
C4_ScratchDeletedOnlyOnSuccessWithDelete ==
    \A t \in Threads :
        temp_dir[t] # NoDir =>
            /\ temp_dir[t] \notin DOMAIN fs =>
                  /\ delete[t]
                  /\ returncode[t] = 0
                  /\ report_read[t]
                  /\ pc[t] \in {"L190", "returned"}
            /\ (pc[t] = "returned" /\ delete[t]) => temp_dir[t] \notin DOMAIN fs
            /\ pc[t] = "raised" => temp_dir[t] \in DOMAIN fs
            /\ (pc[t] = "returned" /\ ~delete[t]) =>
                  /\ temp_dir[t] \in DOMAIN fs
                  /\ fs[temp_dir[t]] = {"mstm", "input_template.txt", "angles.dat",
                                        "mstm.inp", "mstm_out.dat"}

C4_Witness ==
    \E t \in Threads :
        /\ pc[t] = "returned"
        /\ delete[t]
        /\ temp_dir[t] \notin DOMAIN fs
        /\ \E u \in Threads : pc[u] = "raised" /\ delete[u] /\ temp_dir[u] \in DOMAIN fs

\* C5: two calls that both return leave the working directory where it was if
\* they ran one after the other, and in the starting directory or in the
\* scratch directory of one of them if they overlapped.
C5_SequentialCallsKeepCwd ==
    AllReturned =>
        /\ ~overlap => cwd = Home
        /\ cwd \in {Home} \cup {temp_dir[t] : t \in Threads}

\* two overlapping calls, both returned, and the process is left in the
\* scratch directory of one of them
C5_Witness ==
    /\ AllReturned
    /\ overlap
    /\ cwd # Home
    /\ \E t \in Threads : cwd = temp_dir[t]

----------------------------------------------------------------------------
(* separate_exponent, lines 49-67.  A float is a rational n/d with d > 0,   *)
(* an infinity or nan; the arithmetic is exact.                            *)

\* the largest numerator and the most decimal places of an element of num
MaxNum == 12
MaxPlaces == 2

RECURSIVE TenTo(_)
TenTo(k) == IF k <= 0 THEN 1 ELSE 10 * TenTo(k - 1)

Fin(n, d) == [k |-> "fin", n |-> n, d |-> d]
NaN == [k |-> "nan", n |-> 0, d |-> 1]
PosInf == [k |-> "pinf", n |-> 0, d |-> 1]
NegInf == [k |-> "ninf", n |-> 0, d |-> 1]

\* np.abs
Abs(x) == IF x.k = "fin" /\ x.n < 0 THEN Fin(-x.n, x.d)
          ELSE IF x.k = "ninf" THEN PosInf ELSE x

\* the integer k with 10^k <= n/d < 10^(k+1), for n > 0
RECURSIVE Magnitude(_, _)
Magnitude(n, d) ==
    IF n >= 10 * d THEN Magnitude(n, 10 * d) + 1
    ELSE IF n < d THEN Magnitude(10 * n, d) - 1
    ELSE 0

\* a variant of FloorLog10 that rounds up: np.ceil(np.log10(x))
CeilLog10(x) ==
    IF x.k # "fin" THEN x
    ELSE IF x.n = 0 THEN NegInf
    ELSE IF x.n < 0 THEN NaN
    ELSE IF x.n = x.d * TenTo(Magnitude(x.n, x.d)) \/ x.n * TenTo(-Magnitude(x.n, x.d)) = x.d
         THEN Fin(Magnitude(x.n, x.d), 1)
         ELSE Fin(Magnitude(x.n, x.d) + 1, 1)
\* np.floor(np.log10(x)): log10 of zero is -inf, of a negative number nan
FloorLog10(x) ==
    IF x.k # "fin" THEN x
    ELSE IF x.n = 0 THEN NegInf
    ELSE IF x.n < 0 THEN NaN
    ELSE Fin(Magnitude(x.n, x.d), 1)

\* 10**x for an integral float x; 10**-inf is 0
Pow10(x) ==
    IF x.k = "ninf" THEN Fin(0, 1)
    ELSE IF x.k # "fin" THEN x
    ELSE IF x.n >= 0 THEN Fin(TenTo(x.n), 1) ELSE Fin(1, TenTo(-x.n))

\* x / y of numpy for a finite x: division by zero gives nan or an infinity
Div(x, y) ==
    IF y.k = "nan" THEN NaN
    ELSE IF y.k \in {"pinf", "ninf"} THEN Fin(0, 1)
    ELSE IF y.n = 0
         THEN (IF x.n = 0 THEN NaN ELSE IF x.n > 0 THEN PosInf ELSE NegInf)
    ELSE IF y.n > 0 THEN Fin(x.n * y.d, x.d * y.n)
    ELSE Fin(-(x.n * y.d), x.d * (-y.n))

\* np.nan_to_num: nan becomes 0 and an infinity the largest float of its sign
\* (which the model writes as an infinity still)
NanToNum(x) == IF x.k = "nan" THEN Fin(0, 1) ELSE x

\* e[np.isneginf(e)] = 0
NegInfToZero(x) == IF x.k = "ninf" THEN Fin(0, 1) ELSE x

\* e.astype(int) of an integral float
AsInt(x) == x.n

Nums == {Fin(n, TenTo(p)) : n \in (-MaxNum)..MaxNum, p \in 0..MaxPlaces}
Arrays == {<<x>> : x \in Nums} \cup {<<x, Fin(0, 1), Fin(-x.n, x.d)>> : x \in Nums}

SepInit ==
    /\ num \in Arrays
    /\ b = <<>> /\ e = <<>>
    /\ sep_pc = "L62"
    /\ ProcQuiet /\ AngQuiet /\ SweepQuiet /\ ParseQuiet /\ CrossQuiet

\* lines 62-63: b, e = num/10**floor(log10(abs(num))), floor(log10(abs(num)))
SepSplit ==
    /\ sep_pc = "L62"
    /\ b' = [i \in 1..Len(num) |-> Div(num[i], Pow10(FloorLog10(Abs(num[i]))))]
    /\ e' = [i \in 1..Len(num) |-> FloorLog10(Abs(num[i]))]
    /\ sep_pc' = "L64"
    /\ UNCHANGED <<num, procVars, callVars, histVars, angVars,
                   sweepVars, parseVars, crossVars>>

\* line 64: b = np.nan_to_num(b)
SepNanToNum ==
    /\ sep_pc = "L64"
    /\ b' = [i \in 1..Len(b) |-> NanToNum(b[i])]
    /\ sep_pc' = "L65"
    /\ UNCHANGED <<num, e, procVars, callVars, histVars, angVars,
                   sweepVars, parseVars, crossVars>>

\* line 65: e[np.isneginf(e)] = 0
SepNegInf ==
    /\ sep_pc = "L65"
    /\ e' = [i \in 1..Len(e) |-> NegInfToZero(e[i])]
    /\ sep_pc' = "L66"
    /\ UNCHANGED <<num, b, procVars, callVars, histVars, angVars,
                   sweepVars, parseVars, crossVars>>

\* lines 66-67: e = e.astype(int); return b, e
SepAsType ==
    /\ sep_pc = "L66"
    /\ e' = [i \in 1..Len(e) |-> AsInt(e[i])]
    /\ sep_pc' = "done"
    /\ UNCHANGED <<num, b, procVars, callVars, histVars, angVars,
                   sweepVars, parseVars, crossVars>>

SepNext ==
    \/ SepSplit
    \/ SepNanToNum
    \/ SepNegInf
    \/ SepAsType
SpecSep == SepInit /\ [][SepNext]_vars

\* b * 10^k = x, for a finite b and an integer k
Recomposes(x, bb, k) ==
    IF k >= 0 THEN bb.n * TenTo(k) * x.d = x.n * bb.d
    ELSE bb.n * x.d = x.n * bb.d * TenTo(-k)

\* C7: for every element x of num, separate_exponent returns a finite base
\* and an integer exponent with base * 10^exponent = x and 1 <= |base| < 10
\* when x is not zero, and base = 0 and exponent = 0 when x is zero.
C7_BaseTimesPowerOfTen ==
    sep_pc = "done" =>
        /\ Len(b) = Len(num) /\ Len(e) = Len(num)
        /\ \A i \in 1..Len(num) :
              /\ b[i].k = "fin"
              /\ e[i] \in Int
              /\ num[i].n # 0 =>
                    /\ Recomposes(num[i], b[i], e[i])
                    /\ b[i].d <= Abs(b[i]).n
                    /\ Abs(b[i]).n < 10 * b[i].d
              /\ num[i].n = 0 => (b[i].n = 0 /\ e[i] = 0)

\* an array with a number below one, a zero and a negative number has been split
C7_Witness ==
    /\ sep_pc = "done"
    /\ num = <<Fin(12, 100), Fin(0, 1), Fin(-12, 100)>>
    /\ e = <<-1, 0, -1>>
    /\ b[2] = Fin(0, 1)

----------------------------------------------------------------------------
(* The wavelength sweep, lines 114-123.  length_scl_factor is in units of    *)
(* half a thousandth, so that every sample is even and lsf_delta/2 is exact. *)

\* the longest length_scl_factor and its largest sample (in thousandths)
MaxSamples == 3
MaxLsf == 4

\* the solver's sweep: from start by step for as long as end is not passed, a
\* single sample when the step is zero
SolverSweep(start, end, step) ==
    LET n == IF step = 0 THEN 1
             ELSE IF step > 0 THEN (IF end < start THEN 0 ELSE (end - start) \div step + 1)
             ELSE (IF end > start THEN 0 ELSE (start - end) \div (-step) + 1)
    IN  [i \in 1..n |-> start + (i - 1) * step]

LsfVals == {2 * v : v \in 1..MaxLsf}

SweepInit ==
    /\ length_scl_factor \in UNION {[1..l -> LsfVals] : l \in 1..MaxSamples}
    /\ length_scl_factor_info = <<>> /\ visited = <<>>
    /\ sweep_pc = "L116"
    /\ ProcQuiet /\ AngQuiet /\ SepQuiet /\ ParseQuiet /\ CrossQuiet

\* lines 116-123
DeriveSweep ==
    /\ sweep_pc = "L116"
    /\ length_scl_factor_info' = LsfInfo(length_scl_factor).val
    /\ sweep_pc' = "L150"
    /\ UNCHANGED <<length_scl_factor, visited, procVars, callVars, histVars, angVars,
                   sepVars, parseVars, crossVars>>

\* line 150: the solver runs the sweep it reads from mstm.inp
RunSweep ==
    /\ sweep_pc = "L150"
    /\ visited' = SolverSweep(length_scl_factor_info[1], length_scl_factor_info[2],
                              length_scl_factor_info[3])
    /\ sweep_pc' = "done"
    /\ UNCHANGED <<length_scl_factor, length_scl_factor_info, procVars, callVars,
                   histVars, angVars, sepVars, parseVars, crossVars>>

SweepNext ==
    \/ DeriveSweep
    \/ RunSweep
SpecSweep == SweepInit /\ [][SweepNext]_vars

Uniform(s) == \A i \in 1..(Len(s) - 1) : s[i + 1] - s[i] = s[2] - s[1]

\* C8 as stated: start is the first sample; a single sample gives step 0 and
\* end = start; otherwise step is the difference of every two consecutive
\* samples, end is the last sample plus half a step, and the solver's sweep
\* (of a step that is not zero) stops at exactly the requested samples.
C8_StepIsSpacingOfEverySample ==
    sweep_pc = "done" =>
        LET s == length_scl_factor
            k == Len(s)
            start == length_scl_factor_info[1]
            end == length_scl_factor_info[2]
            step == length_scl_factor_info[3]
        IN  /\ start = s[1]
            /\ k = 1 => (step = 0 /\ end = s[1])
            /\ k > 1 => /\ \A i \in 1..(k - 1) : step = s[i + 1] - s[i]
                        /\ 2 * end = 2 * s[k] + step
            /\ step # 0 => visited = s

\* C8 as amended: step is the difference of the first two samples, and the
\* solver's sweep stops at exactly the requested samples when these are
\* equally spaced and distinct.
C8_StepIsFirstSpacing ==
    sweep_pc = "done" =>
        LET s == length_scl_factor
            k == Len(s)
            start == length_scl_factor_info[1]
            end == length_scl_factor_info[2]
            step == length_scl_factor_info[3]
        IN  /\ start = s[1]
            /\ k = 1 => (step = 0 /\ end = s[1] /\ visited = s)
            /\ k > 1 => /\ step = s[2] - s[1]
                        /\ 2 * end = 2 * s[k] + step
                        /\ (Uniform(s) /\ step # 0) => visited = s

\* three equally spaced samples, swept downwards
C8_Witness ==
    /\ sweep_pc = "done"
    /\ length_scl_factor = <<6, 4, 2>>
    /\ length_scl_factor_info = <<6, 1, -2>>
    /\ visited = <<6, 4, 2>>

----------------------------------------------------------------------------
(* The two polarization paths of the parser, lines 162-175, on a report of   *)
(* a run with polarization angle zero and on the same report with extra     *)
(* lines in every efficiency summary.                                       *)

\* the most wavelengths in the report and the most extra lines per summary
MaxBlocks == 2
MaxExtra == 3

\* the efficiency summary of wavelength w in a report for polarization angle
\* zero: the marker, two lines, the line whose third number is the efficiency,
\* and the lines the solver prints after it
SummaryZero(w, tail) ==
    <<QMLine, NumLine(<<w, 0, 30 + w>>), TxtLine, NumLine(<<w, 0, 10 + w>>)>> \o tail
SummaryTails == {<<>>, <<NumLine(<<7, 0, 20>>)>>, <<TxtLine, NumLine(<<7, 0, 20>>)>>}

\* the summary with an extra line ahead of the line at each offset of at
RECURSIVE WithExtras(_, _, _)
WithExtras(block, at, o) ==
    IF o >= Len(block) + 1 THEN <<>>
    ELSE SeqOf(TxtLine, Cardinality({i \in DOMAIN at : at[i] = o}))
         \o (IF o < Len(block) THEN <<At0(block, o)>> ELSE <<>>)
         \o WithExtras(block, at, o + 1)

ReportOf(n_blocks, tail, at) ==
    Concat([w \in 1..n_blocks |->
              WithExtras(SummaryZero(w, tail), at, 0) \o <<BlankLine>> \o MatBlock(w, 1)])

\* the offset of the efficiency line from the marker in a report for
\* polarization angle zero
ValueOffset == 3

ParseInit ==
    /\ \E n_blocks \in 1..MaxBlocks, tail \in SummaryTails :
       \E at \in UNION {[1..l -> 1..(ValueOffset + 1)] : l \in 0..MaxExtra} :
          /\ report_zero = ReportOf(n_blocks, tail, <<>>)
          /\ report_nonzero = ReportOf(n_blocks, tail, at)
          /\ extra_at = at
    /\ parsed_zero = <<>> /\ parsed_nonzero = <<>>
    /\ parse_pc = "zero"
    /\ ProcQuiet /\ AngQuiet /\ SepQuiet /\ SweepQuiet /\ CrossQuiet

\* lines 153-183 with polarization_angle == 0
ParseZero ==
    /\ parse_pc = "zero"
    /\ parsed_zero' = ParseReport(report_zero, Len(scat_mat_el_row(StripLines(report_zero))),
                                  1, TRUE)
    /\ parse_pc' = "nonzero"
    /\ UNCHANGED <<report_zero, report_nonzero, extra_at, parsed_nonzero, procVars,
                   callVars, histVars, angVars, sepVars, sweepVars, crossVars>>

\* lines 153-183 with polarization_angle != 0
ParseNonzero ==
    /\ parse_pc = "nonzero"
    /\ parsed_nonzero' = ParseReport(report_nonzero,
                                     Len(scat_mat_el_row(StripLines(report_nonzero))),
                                     1, FALSE)
    /\ parse_pc' = "done"
    /\ UNCHANGED <<report_zero, report_nonzero, extra_at, parsed_zero, procVars,
                   callVars, histVars, angVars, sepVars, sweepVars, crossVars>>

ParseNext ==
    \/ ParseZero
    \/ ParseNonzero
SpecParse == ParseInit /\ [][ParseNext]_vars

\* both parses gave an array, with the same efficiency for every wavelength
SameEfficiencies ==
    /\ parsed_zero.ok /\ parsed_nonzero.ok
    /\ Len(parsed_zero.val) = Len(parsed_nonzero.val)
    /\ \A m \in 1..Len(parsed_zero.val) :
          /\ parsed_zero.val[m].filled /\ parsed_nonzero.val[m].filled
          /\ parsed_zero.val[m].qsca = parsed_nonzero.val[m].qsca

\* C9 as stated: when the second report differs from the first in one extra
\* line in each efficiency summary, the parse of the first with polarization
\* angle zero and the parse of the second with a nonzero polarization angle take
\* the same efficiency for every wavelength.
C9_OneExtraLineSameEfficiency ==
    (parse_pc = "done" /\ Len(extra_at) = 1) => SameEfficiencies

\* C9 as amended: they take the same efficiency when the second report has
\* two extra lines between the marker and the efficiency line of each summary.
C9_TwoExtraLinesSameEfficiency ==
    (parse_pc = "done" /\ Len(extra_at) = 2
       /\ \A i \in DOMAIN extra_at : extra_at[i] <= ValueOffset)
    => SameEfficiencies

\* two wavelengths, the extra lines right after the marker and right before the
\* efficiency line, and both parses took the efficiencies 11 and 12
C9_Witness ==
    /\ parse_pc = "done"
    /\ extra_at = <<1, 3>>
    /\ Len(parsed_nonzero.val) = 2
    /\ parsed_nonzero.val[1].qsca = 11
    /\ parsed_nonzero.val[2].qsca = 12
    /\ SameEfficiencies

----------------------------------------------------------------------------
(* calc_cross_section, lines 228-260.  Angles are in hundredths of a        *)
(* degree, and a number handed on as radians is in hundredths of a radian.  *)

\* x*np.pi/180
Radians(x) == (x * 314) \div 180

\* interpolate.interp2d(x, y, z): a function f(x, y) over the grid x, y
Interp2d(x, y) == [first |-> x, second |-> y]

\* integrate.dblquad(func, a, b, gfun, hfun) evaluates func(y, x) for x from a
\* to b and y from gfun(x) to hfun(x): the ranges of func's two arguments
Dblquad(lo, hi, gfun, hfun) == [first |-> <<gfun, hfun>>, second |-> <<lo, hi>>]

\* lines 257-259 for one wavelength: the interpolant over (phi, theta) in
\* degrees, and the ranges the quadrature feeds to its phi and theta arguments
Integral(th, ph) ==
    LET f == Interp2d(ph, th)
        q == Dblquad(Radians(At0(th, 0)), Radians(At0(th, Len(th) - 1)),
                     Radians(At0(ph, 0)), Radians(At0(ph, Len(ph) - 1)))
    IN  [grid_phi |-> f.first, grid_theta |-> f.second,
         over_phi |-> q.first, over_theta |-> q.second]

\* an entry of cross_section that np.zeros made
ZeroEntry == [grid_phi |-> <<>>, grid_theta |-> <<>>, over_phi |-> <<>>, over_theta |-> <<>>]

CrossAngles == {0, 9000, 18000}

CrossInit ==
    /\ theta \in UNION {[1..l -> CrossAngles] : l \in 1..MaxTheta}
    /\ phi \in UNION {[1..l -> CrossAngles] : l \in 1..MaxPhi}
    /\ \E inc \in Incidents : Len(inc.length_scl_factor) >= 1 /\ ProcQuietWith(inc)
    /\ angs = <<>> /\ angfile = <<>> /\ n_angles = 0 /\ ang_pc = "off"
    /\ cross_section = <<>> /\ cs_i = 0
    /\ cs_pc = "L252"
    /\ SepQuiet /\ SweepQuiet /\ ParseQuiet

\* line 252: calc_intensity runs calc_scat_matrix, which returns or raises
CalcIntensity ==
    /\ cs_pc = "L252"
    /\ \/ cs_pc' = "L253"
       \/ cs_pc' = "raised"
    /\ UNCHANGED <<cross_section, cs_i, procVars, callVars, histVars, angVars, sepVars,
                   sweepVars, parseVars>>

\* line 253: cross_section = np.zeros([len(incident.length_scl_factor)])
AllocCrossSection ==
    /\ cs_pc = "L253"
    /\ cross_section' = SeqOf(ZeroEntry, Len(incident.length_scl_factor))
    /\ cs_i' = 0
    /\ cs_pc' = "L254"
    /\ UNCHANGED <<procVars, callVars, histVars, angVars, sepVars, sweepVars, parseVars>>

\* lines 254-259: one turn of the loop over the wavelengths
IntegrateOne ==
    /\ cs_pc = "L254"
    /\ cs_i < Len(incident.length_scl_factor)
    /\ cross_section' = [cross_section EXCEPT ![cs_i + 1] = Integral(theta, phi)]
    /\ cs_i' = cs_i + 1
    /\ UNCHANGED <<cs_pc, procVars, callVars, histVars, angVars, sepVars, sweepVars,
                   parseVars>>

\* line 260: return cross_section
ReturnCrossSection ==
    /\ cs_pc = "L254"
    /\ cs_i = Len(incident.length_scl_factor)
    /\ cs_pc' = "returned"
    /\ UNCHANGED <<cross_section, cs_i, procVars, callVars, histVars, angVars, sepVars,
                   sweepVars, parseVars>>

CrossNext ==
    \/ CalcIntensity
    \/ AllocCrossSection
    \/ IntegrateOne
    \/ ReturnCrossSection
SpecCross == CrossInit /\ [][CrossNext]_vars

\* C10: calc_cross_section returns one entry per wavelength sample, each the
\* integral of the interpolant built over (phi, theta), taken in the
\* interpolant's own coordinates from theta[0] to theta[last] and from phi[0]
\* to phi[last].
C10_IntegratesOverRequestedRange ==
    cs_pc = "returned" =>
        /\ Len(cross_section) = Len(incident.length_scl_factor)
        /\ \A i \in 1..Len(cross_section) :
              /\ cross_section[i].grid_theta = theta
              /\ cross_section[i].grid_phi = phi
              /\ cross_section[i].over_theta = <<At0(theta, 0), At0(theta, Len(theta) - 1)>>
              /\ cross_section[i].over_phi = <<At0(phi, 0), At0(phi, Len(phi) - 1)>>

====
